---- MODULE Spec2Model ----
(***************************************************************************)
(* Model of backend/mt5_service: the indicator library (indicators.py),    *)
(* the strategy engine (strategy_engine.py), the scan handler              *)
(* process_symbol (main.py) and the signal store (supabase_client.py).     *)
(*                                                                         *)
(* Numbers.  A Python float is modelled by an exact rational <<n, d>> with *)
(* d > 0, kept in lowest terms; Python's None, where a float is expected,  *)
(* is the pair <<0, 0>>.  Rounding of IEEE doubles is therefore abstracted *)
(* away; math.sqrt is the one operation that is not rational and is        *)
(* modelled by a floor at a fixed precision (see Sqrt).                    *)
(* Sequences are 1-based: Python's data[i] is data[i + 1] here.            *)
(***************************************************************************)
EXTENDS Integers, Sequences, FiniteSets, TLC

VARIABLES
    supabase,    \* supabase_client.supabase: "None" or "client"
    now,         \* the clock, in minutes
    db,          \* rows of the table 'signals'
    closes,      \* process_symbol: the closes fetched by the last call
    signals,     \* process_symbol: what run_all_strategies returned
    attempts,    \* process_symbol: the save_signal calls of the last call
    h_strategy,  \* engine harness: the strategy given to run_strategy
    h_closes,    \* engine harness: the closes given to the engine
    h_indicators,\* engine harness: the indicators run_strategy computes for them
    h_call,      \* engine harness: the last engine call and its arguments
    h_out,       \* engine harness: what the last engine call returned
    i_data,      \* indicator harness: the data sequence
    i_period,    \* indicator harness: the period
    i_call,      \* indicator harness: the last indicator called
    i_out        \* indicator harness: the series it returned

vars == <<supabase, now, db, closes, signals, attempts,
          h_strategy, h_closes, h_indicators, h_call, h_out,
          i_data, i_period, i_call, i_out>>

---------------------------------------------------------------------------
(* Rational arithmetic standing for Python float arithmetic.               *)

None == <<0, 0>>
IsNone(v) == v[2] = 0

Abs(n) == IF n < 0 THEN -n ELSE n

RECURSIVE GCD(_, _)
GCD(a, b) == IF b = 0 THEN a ELSE GCD(b, a % b)

\* n / d in lowest terms with a positive denominator (d # 0)
Rat(n, d) ==
    LET g == GCD(Abs(n), Abs(d))
        s == IF d < 0 THEN -1 ELSE 1
    IN  IF g = 0 THEN None ELSE <<(s * n) \div g, (s * d) \div g>>

Num(n) == <<n, 1>>
\* sums over the least common denominator and products reduced crosswise keep
\* the intermediate integers small
RAdd(a, b) ==
    LET g == GCD(a[2], b[2])
    IN  Rat(a[1] * (b[2] \div g) + b[1] * (a[2] \div g), (a[2] \div g) * b[2])
RNeg(a) == <<-a[1], a[2]>>
RSub(a, b) == RAdd(a, RNeg(b))
RMul(a, b) ==
    LET g1 == GCD(Abs(a[1]), b[2])
        g2 == GCD(Abs(b[1]), a[2])
    IN  IF g1 = 0 \/ g2 = 0 THEN None
        ELSE Rat((a[1] \div g1) * (b[1] \div g2), (a[2] \div g2) * (b[2] \div g1))
\* a / b, b # 0
RDiv(a, b) == RMul(a, Rat(b[2], b[1]))
RLt(a, b) == a[1] * b[2] < b[1] * a[2]
RGt(a, b) == RLt(b, a)
RLe(a, b) == ~RLt(b, a)
REq(a, b) == a[1] * b[2] = b[1] * a[2]
RMax(a, b) == IF RLt(a, b) THEN b ELSE a
Zero == Num(0)

\* e, with v evaluated first.  TLC evaluates an operator's arguments when
\* they are first used; a loop is modelled by the operator of its body and an
\* operator running the iterations i..j-1, which splits the range in two and
\* evaluates the first half before the second so that TLC's evaluation stack
\* stays shallow.  The iterations run in the order of the code.
Strict(v, e) == IF v = v THEN e ELSE e

\* [None] * n
Nones(n) == [j \in 1..n |-> None]

\* sum(data[lo:hi]) for Python indices 0 <= lo <= hi <= len(data), added up
\* from the left starting at 0
RECURSIVE sum_range(_, _, _, _)
sum_range(data, total, i, j) ==
    IF i >= j THEN total
    ELSE IF j - i = 1 THEN RAdd(total, data[i + 1])
    ELSE LET mid == (i + j) \div 2
             m == sum_range(data, total, i, mid)
         IN  Strict(m, sum_range(data, m, mid, j))
SumSlice(data, lo, hi) == sum_range(data, Zero, lo, hi)

---------------------------------------------------------------------------
(* indicators.py                                                           *)

\* calculate_sma with the window one element short
calculate_sma_shortwindow(data, period) ==
    IF period > Len(data) \/ period <= 0 THEN Nones(Len(data))
    ELSE [j \in 1..Len(data) |->
            IF j - 1 < period - 1 THEN None
            ELSE RDiv(SumSlice(data, j - period + 1, j), Num(period))]

calculate_sma(data, period) ==
    IF period > Len(data) \/ period <= 0 THEN Nones(Len(data))
    ELSE [j \in 1..Len(data) |->
            IF j - 1 < period - 1 THEN None
            ELSE RDiv(SumSlice(data, j - period, j), Num(period))]

\* one iteration of the loop of calculate_ema, at Python index i
ema_step(data, period, st, i) ==
    IF IsNone(st.prev_ema)
    THEN IF i >= period - 1
         THEN LET seed == RDiv(SumSlice(data, i - period + 1, i + 1), Num(period))
              IN  [prev_ema |-> seed, ema |-> Append(st.ema, seed)]
         ELSE [prev_ema |-> st.prev_ema, ema |-> Append(st.ema, None)]
    ELSE LET multiplier == Rat(2, period + 1)
             current_ema == RAdd(RMul(RSub(data[i + 1], st.prev_ema), multiplier),
                                 st.prev_ema)
         IN  [prev_ema |-> current_ema, ema |-> Append(st.ema, current_ema)]

RECURSIVE ema_range(_, _, _, _, _)
ema_range(data, period, st, i, j) ==
    IF i >= j THEN st
    ELSE IF j - i = 1 THEN ema_step(data, period, st, i)
    ELSE LET mid == (i + j) \div 2
             m == ema_range(data, period, st, i, mid)
         IN  Strict(m, ema_range(data, period, m, mid, j))

calculate_ema(data, period) ==
    IF period > Len(data) \/ period <= 0 THEN Nones(Len(data))
    ELSE ema_range(data, period, [prev_ema |-> None, ema |-> <<>>], 0, Len(data)).ema

\* 100 - (100 / (1 + rs)) with rs = avg_gain / avg_loss
rsi_formula(avg_gain, avg_loss) ==
    LET rs == RDiv(avg_gain, avg_loss)
    IN  RSub(Num(100), RDiv(Num(100), RAdd(Num(1), rs)))

\* the value calculate_rsi appends for the averages avg_gain, avg_loss
rsi_value(avg_gain, avg_loss) ==
    IF REq(avg_loss, Zero) THEN Num(100) ELSE rsi_formula(avg_gain, avg_loss)

\* one iteration of the first loop of calculate_rsi, with the losses added
\* with their sign
rsi_initial_step_signed(cl, st, i) ==
    LET change == RSub(cl[i + 1], cl[i])
    IN  IF RGt(change, Zero)
        THEN [gains |-> RAdd(st.gains, change), losses |-> st.losses]
        ELSE [gains |-> st.gains, losses |-> RAdd(st.losses, change)]

\* one iteration of the first loop of calculate_rsi, at Python index i
rsi_initial_step(cl, st, i) ==
    LET change == RSub(cl[i + 1], cl[i])
    IN  IF RGt(change, Zero)
        THEN [gains |-> RAdd(st.gains, change), losses |-> st.losses]
        ELSE [gains |-> st.gains, losses |-> RSub(st.losses, change)]

RECURSIVE rsi_initial_range(_, _, _, _)
rsi_initial_range(cl, st, i, j) ==
    IF i >= j THEN st
    ELSE IF j - i = 1 THEN rsi_initial_step(cl, st, i)
    ELSE LET mid == (i + j) \div 2
             m == rsi_initial_range(cl, st, i, mid)
         IN  Strict(m, rsi_initial_range(cl, m, mid, j))

\* one iteration of the second loop of calculate_rsi, at Python index i
rsi_step(cl, period, st, i) ==
    LET change == RSub(cl[i + 1], cl[i])
        current_gain == RMax(change, Zero)
        current_loss == RMax(RNeg(change), Zero)
        avg_gain == RDiv(RAdd(RMul(st.avg_gain, Num(period - 1)), current_gain),
                         Num(period))
        avg_loss == RDiv(RAdd(RMul(st.avg_loss, Num(period - 1)), current_loss),
                         Num(period))
    IN  [avg_gain |-> avg_gain, avg_loss |-> avg_loss,
         rsi |-> Append(st.rsi, rsi_value(avg_gain, avg_loss))]

RECURSIVE rsi_range(_, _, _, _, _)
rsi_range(cl, period, st, i, j) ==
    IF i >= j THEN st
    ELSE IF j - i = 1 THEN rsi_step(cl, period, st, i)
    ELSE LET mid == (i + j) \div 2
             m == rsi_range(cl, period, st, i, mid)
         IN  Strict(m, rsi_range(cl, period, m, mid, j))

calculate_rsi(cl, period) ==
    IF period >= Len(cl) \/ period <= 0 THEN Nones(Len(cl))
    ELSE LET init == rsi_initial_range(cl, [gains |-> Zero, losses |-> Zero],
                                       1, period + 1)
             avg_gain == RDiv(init.gains, Num(period))
             avg_loss == RDiv(init.losses, Num(period))
         IN  rsi_range(cl, period,
                       [avg_gain |-> avg_gain, avg_loss |-> avg_loss,
                        rsi |-> Append(Nones(period), rsi_value(avg_gain, avg_loss))],
                       period + 1, Len(cl)).rsi

\* math.sqrt(x) for x >= 0, rounded down to a multiple of 1 / SqrtScale
SqrtScale == 100
\* the largest k in lo..hi-1 with (k / SqrtScale) ** 2 <= x, by bisection
RECURSIVE sqrt_floor(_, _, _)
sqrt_floor(x, lo, hi) ==
    IF hi - lo <= 1 THEN lo
    ELSE LET mid == (lo + hi) \div 2
         IN  IF mid * mid * x[2] <= x[1] * SqrtScale * SqrtScale
             THEN sqrt_floor(x, mid, hi)
             ELSE sqrt_floor(x, lo, mid)
Sqrt(x) == Rat(sqrt_floor(x, 0, (x[1] \div x[2] + 1) * SqrtScale + 1), SqrtScale)

\* sum((x - mean) ** 2 for x in data[lo:hi])
RECURSIVE sqdev_range(_, _, _, _, _)
sqdev_range(data, mean, total, i, j) ==
    IF i >= j THEN total
    ELSE IF j - i = 1
    THEN LET dev == RSub(data[i + 1], mean) IN RAdd(total, RMul(dev, dev))
    ELSE LET mid == (i + j) \div 2
             m == sqdev_range(data, mean, total, i, mid)
         IN  Strict(m, sqdev_range(data, mean, m, mid, j))
SumSqDev(data, lo, hi, mean) == sqdev_range(data, mean, Zero, lo, hi)

\* one band of calculate_bollinger_bands: sign is 1 for upper, -1 for lower
bollinger_band(data, period, std_dev, sma, sign) ==
    [j \in 1..Len(data) |->
        IF IsNone(sma[j]) THEN None
        ELSE LET mean == sma[j]
                 variance == RDiv(SumSqDev(data, j - period, j, mean), Num(period))
                 sd == Sqrt(variance)
             IN  RAdd(mean, RMul(Num(sign), RMul(sd, std_dev)))]

calculate_bollinger_bands(data, period, std_dev) ==
    LET sma == calculate_sma(data, period)
    IN  [k \in {"upper", "middle", "lower"} |->
            CASE k = "upper"  -> bollinger_band(data, period, std_dev, sma, 1)
              [] k = "middle" -> sma
              [] k = "lower"  -> bollinger_band(data, period, std_dev, sma, -1)]

\* detect_crossover mutated to accept a touch (<=, >=) as a cross
detect_crossover_nonstrict(series1, series2, index) ==
    IF index < 1 THEN "None"
    ELSE LET current1 == series1[index + 1]
             current2 == series2[index + 1]
             prev1 == series1[index]
             prev2 == series2[index]
         IN  IF IsNone(current1) \/ IsNone(current2) \/ IsNone(prev1) \/ IsNone(prev2)
             THEN "None"
             ELSE IF RLe(prev1, prev2) /\ RGt(current1, current2) THEN "up"
             ELSE IF RLe(prev2, prev1) /\ RLt(current1, current2) THEN "down"
             ELSE "None"

\* detect_crossover(series1, series2, index), 0 <= index < len: "up", "down" or
\* "None"
detect_crossover(series1, series2, index) ==
    IF index < 1 THEN "None"
    ELSE LET current1 == series1[index + 1]
             current2 == series2[index + 1]
             prev1 == series1[index]
             prev2 == series2[index]
         IN  IF IsNone(current1) \/ IsNone(current2) \/ IsNone(prev1) \/ IsNone(prev2)
             THEN "None"
             ELSE IF RLt(prev1, prev2) /\ RGt(current1, current2) THEN "up"
             ELSE IF RGt(prev1, prev2) /\ RLt(current1, current2) THEN "down"
             ELSE "None"

---------------------------------------------------------------------------
(* strategy_engine.py                                                      *)
(* A TradeDirection is "BUY" or "SELL"; an absent direction is "None".     *)
(* A rule is a record: ind2 = "" stands for a rule without the key 'ind2', *)
(* has_value tells whether the key 'value' is present.  An indicator entry *)
(* carries has_period and has_std_dev for its optional keys.  A value of   *)
(* type Optional[List] is [some |-> FALSE, s |-> <<>>] for None and        *)
(* [some |-> TRUE, s |-> list] for a list.                                 *)
(* A call that would raise returns with exc # "".                          *)

\* str(n) of a Python int
Digit(d) == SubSeq("0123456789", d + 1, d + 1)
RECURSIVE NatToString(_)
NatToString(n) == IF n < 10 THEN Digit(n) ELSE NatToString(n \div 10) \o Digit(n % 10)
PyStr(n) == IF n < 0 THEN "-" \o NatToString(-n) ELSE NatToString(n)

\* f"{x:.2f}": x rounded to hundredths (a tie rounds away from zero here; the
\* double nearest to a tie rounds either way in Python)
Fmt2(x) ==
    LET a == Abs(x[1])
        h == (2 * a * 100 + x[2]) \div (2 * x[2])
        frac == h % 100
    IN  (IF x[1] < 0 /\ h > 0 THEN "-" ELSE "") \o NatToString(h \div 100) \o "."
        \o Digit(frac \div 10) \o Digit(frac % 10)

\* key.startswith(prefix)
StartsWith(key, prefix) ==
    Len(key) >= Len(prefix) /\ SubSeq(key, 1, Len(prefix)) = prefix

\* the position of the first '_' of key at or after position i, or Len(key) + 1
RECURSIVE NextUnderscore(_, _)
NextUnderscore(key, i) ==
    IF i > Len(key) THEN Len(key) + 1
    ELSE IF SubSeq(key, i, i) = "_" THEN i
    ELSE NextUnderscore(key, i + 1)

\* key.split('_')[1], for a key that holds a '_'
SplitSecond(key) ==
    LET first == NextUnderscore(key, 1)
        second == NextUnderscore(key, first + 1)
    IN  SubSeq(key, first + 1, second - 1)

SignalResult(triggered, direction, reason) ==
    [triggered |-> triggered, direction |-> direction, reason |-> reason,
     strategy_id |-> "", strategy_name |-> "", exc |-> ""]

\* the call raised exception e instead of returning a SignalResult
Raised(e) ==
    [triggered |-> FALSE, direction |-> "None", reason |-> "",
     strategy_id |-> "", strategy_name |-> "", exc |-> e]

Rule(condition, ind1, ind2, direction) ==
    [condition |-> condition, ind1 |-> ind1, ind2 |-> ind2,
     has_value |-> FALSE, value |-> Zero, direction |-> direction]

ValueRule(condition, ind1, value, direction) ==
    [condition |-> condition, ind1 |-> ind1, ind2 |-> "",
     has_value |-> TRUE, value |-> value, direction |-> direction]

Indicator(type, period) ==
    [type |-> type, has_period |-> TRUE, period |-> period,
     has_std_dev |-> FALSE, std_dev |-> Zero]

BUILT_IN_STRATEGIES ==
    << [id |-> "11111111-1111-1111-1111-111111111111",
        name |-> "SMA Trend Strategy",
        indicators |-> << Indicator("SMA", 20) >>,
        rules |-> << Rule("greater_than", "CLOSE", "SMA_20", "BUY"),
                     Rule("less_than", "CLOSE", "SMA_20", "SELL") >>],
       [id |-> "22222222-2222-2222-2222-222222222222",
        name |-> "EMA Trend Strategy",
        indicators |-> << Indicator("EMA", 20) >>,
        rules |-> << Rule("greater_than", "CLOSE", "EMA_20", "BUY"),
                     Rule("less_than", "CLOSE", "EMA_20", "SELL") >>] >>

\* params.get('period', default)
PeriodOr(params, default) == IF params.has_period THEN params.period ELSE default

calculate_indicator(indicator_type, cl, params) ==
    CASE indicator_type = "SMA" ->
            [k \in {"main"} |-> calculate_sma(cl, PeriodOr(params, 20))]
      [] indicator_type = "EMA" ->
            [k \in {"main"} |-> calculate_ema(cl, PeriodOr(params, 20))]
      [] indicator_type = "RSI" ->
            [k \in {"main"} |-> calculate_rsi(cl, PeriodOr(params, 14))]
      [] indicator_type = "BOLLINGER_BANDS" ->
            calculate_bollinger_bands(cl, PeriodOr(params, 20),
                IF params.has_std_dev THEN params.std_dev ELSE Num(2))
      [] OTHER -> [k \in {"main"} |-> Nones(Len(cl))]

NoSeries == [some |-> FALSE, s |-> <<>>]
Some(series) == [some |-> TRUE, s |-> series]

get_series(key, indicators, cl) ==
    IF key = "CLOSE" THEN Some(cl)
    ELSE IF key \in DOMAIN indicators /\ "main" \in DOMAIN indicators[key]
    THEN Some(indicators[key]["main"])
    ELSE IF StartsWith(key, "BB_")
            /\ "BOLLINGER_BANDS_20" \in DOMAIN indicators
            /\ SplitSecond(key) \in DOMAIN indicators["BOLLINGER_BANDS_20"]
    THEN Some(indicators["BOLLINGER_BANDS_20"][SplitSecond(key)])
    ELSE NoSeries

\* the comparison of evaluate_rule holding on equality too (>=, <=)
Compare_nonstrict(gt, current_value, target_value) ==
    IF IsNone(current_value) \/ IsNone(target_value) THEN "TypeError"
    ELSE IF gt THEN (IF RLe(target_value, current_value) THEN "True" ELSE "False")
    ELSE (IF RLe(current_value, target_value) THEN "True" ELSE "False")

\* current_value > target_value (gt) or current_value < target_value: Python
\* raises TypeError when an operand is None
Compare(gt, current_value, target_value) ==
    IF IsNone(current_value) \/ IsNone(target_value) THEN "TypeError"
    ELSE IF gt THEN (IF RGt(current_value, target_value) THEN "True" ELSE "False")
    ELSE (IF RLt(current_value, target_value) THEN "True" ELSE "False")

\* evaluate_rule(rule, indicators, closes), len(closes) >= 1
evaluate_rule(rule, indicators, cl) ==
    LET latest_idx == Len(cl) - 1
        condition == rule.condition
    IN
    IF condition \in {"crossover", "crossunder"} THEN
        \* rule['ind2'] of a rule without the key
        IF rule.ind2 = "" THEN Raised("KeyError") ELSE
        LET series1 == get_series(rule.ind1, indicators, cl)
            series2 == get_series(rule.ind2, indicators, cl)
        IN  IF ~series1.some \/ ~series2.some
            THEN SignalResult(FALSE, "None", "Missing indicator data")
            ELSE LET crossover == detect_crossover(series1.s, series2.s, latest_idx)
                 IN  IF condition = "crossover" /\ crossover = "up"
                     THEN SignalResult(TRUE, rule.direction,
                            rule.ind1 \o " crossed above " \o rule.ind2)
                     ELSE IF condition = "crossunder" /\ crossover = "down"
                     THEN SignalResult(TRUE, rule.direction,
                            rule.ind1 \o " crossed below " \o rule.ind2)
                     ELSE SignalResult(FALSE, "None", "No crossover detected")
    ELSE IF condition \in {"greater_than", "less_than"} THEN
        LET series == get_series(rule.ind1, indicators, cl)
            series2 == IF rule.ind2 # "" /\ rule.ind2 # "CLOSE"
                       THEN get_series(rule.ind2, indicators, cl)
                       ELSE NoSeries
        IN  IF ~series.some \/ IsNone(series.s[latest_idx + 1])
            THEN SignalResult(FALSE, "None", "Missing indicator data")
            ELSE
            LET current_value == series.s[latest_idx + 1]
                \* "if series2:" is false for None and for an empty list
                use2 == series2.some /\ Len(series2.s) > 0
            IN  IF use2 /\ IsNone(series2.s[latest_idx + 1])
                THEN SignalResult(FALSE, "None", "Missing indicator2 data")
                ELSE
                LET target_value ==
                        IF use2 THEN series2.s[latest_idx + 1]
                        ELSE IF rule.has_value THEN rule.value ELSE Zero
                    holds == Compare(condition = "greater_than", current_value, target_value)
                IN  IF holds = "TypeError" THEN Raised("TypeError")
                    ELSE IF holds = "True"
                    THEN SignalResult(TRUE, rule.direction,
                            rule.ind1 \o " (" \o Fmt2(current_value) \o ")"
                            \o (IF condition = "greater_than" THEN " > " ELSE " < ")
                            \o Fmt2(target_value))
                    ELSE SignalResult(FALSE, "None", "Condition not met")
    ELSE SignalResult(FALSE, "None", "Unknown condition")

\* the key f"{ind['type']}_{ind.get('period', 'default')}"
indicator_key(ind) ==
    ind.type \o "_" \o (IF ind.has_period THEN PyStr(ind.period) ELSE "default")

\* the loop of run_strategy over strategy['indicators'], from entry k on
RECURSIVE compute_indicators(_, _, _, _)
compute_indicators(inds, cl, k, indicators) ==
    IF k > Len(inds) THEN indicators
    ELSE LET key == indicator_key(inds[k])
             series == calculate_indicator(inds[k].type, cl, inds[k])
         IN  compute_indicators(inds, cl, k + 1,
                [x \in DOMAIN indicators \cup {key} |->
                    IF x = key THEN series ELSE indicators[x]])

NoIndicators == [x \in {} |-> <<>>]

MIN_CLOSES == 50

\* the loop of run_strategy over strategy['rules'], from rule k on
RECURSIVE evaluate_rules(_, _, _, _, _)
evaluate_rules(strategy, indicators, cl, k, results) ==
    IF k > Len(strategy.rules) THEN [exc |-> "", results |-> results]
    ELSE LET result == evaluate_rule(strategy.rules[k], indicators, cl)
         IN  IF result.exc # "" THEN [exc |-> result.exc, results |-> <<>>]
             ELSE IF result.triggered
             THEN evaluate_rules(strategy, indicators, cl, k + 1,
                    Append(results, [result EXCEPT !.strategy_id = strategy.id,
                                                   !.strategy_name = strategy.name]))
             ELSE evaluate_rules(strategy, indicators, cl, k + 1, results)

\* run_strategy with the minimum length one short
run_strategy_offbyone(strategy, cl) ==
    IF Len(cl) < MIN_CLOSES - 1 THEN [exc |-> "", results |-> <<>>]
    ELSE evaluate_rules(strategy,
            compute_indicators(strategy.indicators, cl, 1, NoIndicators), cl, 1, <<>>)

\* run_strategy(strategy, closes): [exc, results]
run_strategy(strategy, cl) ==
    IF Len(cl) < MIN_CLOSES THEN [exc |-> "", results |-> <<>>]
    ELSE evaluate_rules(strategy,
            compute_indicators(strategy.indicators, cl, 1, NoIndicators), cl, 1, <<>>)

\* the loop of run_all_strategies putting each strategy's results in front
RECURSIVE run_all_from_reversed(_, _, _)
run_all_from_reversed(cl, k, all_results) ==
    IF k > Len(BUILT_IN_STRATEGIES) THEN [exc |-> "", results |-> all_results]
    ELSE LET r == run_strategy(BUILT_IN_STRATEGIES[k], cl)
         IN  IF r.exc # "" THEN [exc |-> r.exc, results |-> <<>>]
             ELSE run_all_from_reversed(cl, k + 1, r.results \o all_results)

\* the loop of run_all_strategies, from catalog entry k on
RECURSIVE run_all_from(_, _, _)
run_all_from(cl, k, all_results) ==
    IF k > Len(BUILT_IN_STRATEGIES) THEN [exc |-> "", results |-> all_results]
    ELSE LET r == run_strategy(BUILT_IN_STRATEGIES[k], cl)
         IN  IF r.exc # "" THEN [exc |-> r.exc, results |-> <<>>]
             ELSE run_all_from(cl, k + 1, all_results \o r.results)

run_all_strategies(cl) == run_all_from(cl, 1, <<>>)

\* calculate_risk_levels with the two percentages exchanged
calculate_risk_levels_swapped(entry_price, direction) ==
    LET risk_pct == Rat(4, 100)
        reward_pct == Rat(2, 100)
    IN  IF direction = "BUY"
        THEN [stop_loss |-> RMul(entry_price, RSub(Num(1), risk_pct)),
              take_profit |-> RMul(entry_price, RAdd(Num(1), reward_pct))]
        ELSE [stop_loss |-> RMul(entry_price, RAdd(Num(1), risk_pct)),
              take_profit |-> RMul(entry_price, RSub(Num(1), reward_pct))]

calculate_risk_levels(entry_price, direction) ==
    LET risk_pct == Rat(2, 100)
        reward_pct == Rat(4, 100)
    IN  IF direction = "BUY"
        THEN [stop_loss |-> RMul(entry_price, RSub(Num(1), risk_pct)),
              take_profit |-> RMul(entry_price, RAdd(Num(1), reward_pct))]
        ELSE [stop_loss |-> RMul(entry_price, RAdd(Num(1), risk_pct)),
              take_profit |-> RMul(entry_price, RSub(Num(1), reward_pct))]

---------------------------------------------------------------------------
(* Inputs.  A price series is a run of one base price followed by a tail   *)
(* of TailLen arbitrary prices: the moving averages of such a series stay  *)
(* exact and small, and its last values sit above, on and below them.      *)

MaxPrice == 3
BasePrice == 2
TailLen == 2
Prices == 1..MaxPrice

\* n >= TailLen closes: n - TailLen times base, then tail
Series(n, base, tail) ==
    [j \in 1..n |-> IF j <= n - TailLen THEN Num(base) ELSE Num(tail[j - (n - TailLen)])]

SeriesOfLength(n) == {Series(n, BasePrice, tail) : tail \in [1..TailLen -> Prices]}

---------------------------------------------------------------------------
(* config.py, supabase_client.py, main.py                                  *)

DUPLICATE_LOOKBACK_MINUTES == 60
TIMEFRAMES == <<"H1", "H4">>
Symbols == {"EURUSD"}

\* the clock advances in steps of TickMinutes up to MaxNow
TickMinutes == 30
MaxNow == 60
\* the table is followed up to MaxRows rows
MaxRows == 2

\* what fetch_candles can return: nothing, or a history just short of, or
\* of, the engine's minimum, flat but for its last close, which is below, on
\* or above it
CandleInputs ==
    {<<>>} \cup
    {Series(n, BasePrice, [j \in 1..TailLen |-> IF j = TailLen THEN last ELSE BasePrice]) :
        n \in {MIN_CLOSES - 1, MIN_CLOSES}, last \in (BasePrice - 1)..(BasePrice + 1)}

\* the closes given to the engine directly: short series of arbitrary prices,
\* and series around the engine's minimum length
EngineInputs ==
    SeriesOfLength(TailLen) \cup SeriesOfLength(MIN_CLOSES - 1)
    \cup SeriesOfLength(MIN_CLOSES) \cup SeriesOfLength(MIN_CLOSES + 1)

\* strategies a caller can give run_strategy besides the built-in catalog
CrossoverStrategy ==
    [id |-> "33333333-3333-3333-3333-333333333333",
     name |-> "MA Crossover Strategy",
     indicators |-> << Indicator("SMA", 2), Indicator("SMA", 3) >>,
     rules |-> << Rule("crossover", "CLOSE", "SMA_2", "BUY"),
                  Rule("crossunder", "CLOSE", "SMA_2", "SELL"),
                  Rule("crossover", "SMA_2", "SMA_3", "BUY"),
                  Rule("crossunder", "SMA_2", "SMA_3", "SELL"),
                  Rule("crossover", "CLOSE", "SMA_9", "BUY") >>]

RsiStrategy ==
    [id |-> "44444444-4444-4444-4444-444444444444",
     name |-> "RSI Strategy",
     indicators |-> << [type |-> "RSI", has_period |-> FALSE, period |-> 0,
                        has_std_dev |-> FALSE, std_dev |-> Zero] >>,
     rules |-> << ValueRule("less_than", "RSI_default", Num(30), "BUY"),
                  ValueRule("greater_than", "RSI_default", Num(70), "SELL"),
                  ValueRule("greater_than", "CLOSE", Num(BasePrice), "BUY"),
                  ValueRule("less_than", "CLOSE", Num(BasePrice), "SELL"),
                  Rule("greater_than", "CLOSE", "", "BUY") >>]

BollingerStrategy ==
    [id |-> "55555555-5555-5555-5555-555555555555",
     name |-> "Bollinger Strategy",
     indicators |-> << Indicator("BOLLINGER_BANDS", 20) >>,
     rules |-> << Rule("less_than", "CLOSE", "BB_lower", "BUY"),
                  Rule("greater_than", "CLOSE", "BB_upper", "SELL"),
                  Rule("greater_than", "BB_middle", "CLOSE", "SELL"),
                  Rule("less_than", "BB_middle", "CLOSE", "BUY") >>]

DegenerateStrategy ==
    [id |-> "66666666-6666-6666-6666-666666666666",
     name |-> "Degenerate Strategy",
     indicators |-> << Indicator("SMA", 0), Indicator("EMA", 60), Indicator("RSI", -1),
                       Indicator("MACD", 12) >>,
     rules |-> << ValueRule("greater_than", "SMA_0", Num(0), "BUY"),
                  ValueRule("less_than", "SMA_99", Num(0), "SELL"),
                  Rule("greater_than", "CLOSE", "EMA_60", "BUY"),
                  Rule("less_than", "CLOSE", "MACD_12", "SELL"),
                  Rule("greater_than", "CLOSE", "SMA_99", "BUY"),
                  Rule("less_than", "CLOSE", "BB_upper", "SELL"),
                  Rule("crossover", "CLOSE", "RSI_-1", "BUY"),
                  Rule("between", "CLOSE", "SMA_0", "BUY") >>]

EngineStrategies ==
    {BUILT_IN_STRATEGIES[k] : k \in 1..Len(BUILT_IN_STRATEGIES)}
    \cup {CrossoverStrategy, RsiStrategy, BollingerStrategy, DegenerateStrategy}

\* the entry prices given to calculate_risk_levels directly: the halves up to
\* MaxEntry / 2, and the price of the documented example
MaxEntry == 6
EntryPrices == {Rat(n, 2) : n \in 0..MaxEntry} \cup {Num(100)}

\* the inputs of the indicator library: every sequence of up to MaxLen values
\* in 0..MaxValue, every period in -1..MaxLen + 1
MaxLen == 4
MaxValue == 2
IndicatorInputs ==
    UNION {[1..n -> {Num(v) : v \in 0..MaxValue}] : n \in 0..MaxLen}
IndicatorPeriods == (-1)..(MaxLen + 1)

\* is_duplicate_signal: query_error is the except branch
is_duplicate_signal(client, rows, t, strategy_id, symbol, direction, query_error) ==
    IF client = "None" THEN FALSE
    ELSE IF query_error THEN FALSE
    ELSE LET lookback_time == t - DUPLICATE_LOOKBACK_MINUTES
         IN  \E k \in 1..Len(rows) :
                /\ rows[k].strategy_id = strategy_id
                /\ rows[k].symbol = symbol
                /\ rows[k].direction = direction
                /\ rows[k].created_at >= lookback_time

\* save_signal: [rows, ret]; outcome tells how the two requests to the store
\* end: "ok", "query_error" (the select raises), "insert_error" (the insert
\* raises).  created_at is the store's clock at the insert.
save_signal(client, rows, t, a, outcome) ==
    IF client = "None" THEN [rows |-> rows, ret |-> FALSE]
    ELSE IF is_duplicate_signal(client, rows, t, a.strategy_id, a.symbol, a.direction,
                                outcome = "query_error")
    THEN [rows |-> rows, ret |-> FALSE]
    ELSE IF outcome = "insert_error" THEN [rows |-> rows, ret |-> FALSE]
    ELSE [rows |-> Append(rows,
                    [symbol |-> a.symbol, strategy |-> a.strategy,
                     strategy_id |-> a.strategy_id,
                     strategy_category |-> a.strategy_category,
                     direction |-> a.direction, entry_price |-> a.entry_price,
                     stop_loss |-> a.stop_loss, take_profit |-> a.take_profit,
                     timeframe |-> a.timeframe, status |-> "Pending",
                     entry_type |-> "MARKET", created_at |-> t]),
          ret |-> TRUE]

Outcomes == {"ok", "query_error", "insert_error"}

\* calculate_risk_levels(closes[-1], signal.direction) for each signal of sigs
risk_levels(cl, sigs) ==
    [k \in 1..Len(sigs) |-> calculate_risk_levels(cl[Len(cl)], sigs[k].direction)]

\* run_all_strategies(closes), and the risk levels of its results, for every
\* closes fetch_candles can return: both are functions of closes alone and are
\* computed once
SignalsOf == [cl \in CandleInputs |-> run_all_strategies(cl)]
LevelsOf == [cl \in CandleInputs |-> risk_levels(cl, SignalsOf[cl].results)]

\* the arguments process_symbol gives save_signal for one signal
save_args(symbol, timeframe, entry_price, signal, levels) ==
    [symbol |-> symbol, strategy |-> signal.strategy_name,
     strategy_id |-> signal.strategy_id,
     strategy_category |-> "Trend Following",
     direction |-> signal.direction, entry_price |-> entry_price,
     stop_loss |-> levels.stop_loss, take_profit |-> levels.take_profit,
     timeframe |-> timeframe]

\* the loop of process_symbol over signals, from signal k on:
\* [rows, calls], calls being the save_signal calls made
RECURSIVE save_signals(_, _, _, _, _, _, _, _, _, _)
save_signals(client, rows, t, symbol, timeframe, cl, sigs, levels, outcome, k) ==
    IF k > Len(sigs) THEN [rows |-> rows, calls |-> <<>>]
    ELSE IF ~sigs[k].triggered \/ sigs[k].direction = "None"
    THEN save_signals(client, rows, t, symbol, timeframe, cl, sigs, levels,
                      outcome, k + 1)
    ELSE LET a == save_args(symbol, timeframe, cl[Len(cl)], sigs[k], levels[k])
             r == save_signal(client, rows, t, a, outcome[k])
             rest == save_signals(client, r.rows, t, symbol, timeframe, cl, sigs,
                                  levels, outcome, k + 1)
         IN  [rows |-> rest.rows,
              calls |-> <<[args |-> a, outcome |-> outcome[k], ret |-> r.ret]>>
                        \o rest.calls]

\* process_symbol(symbol, timeframe) after fetch_candles returned cl, with r
\* what run_all_strategies(cl) returns and levels the risk levels of its
\* results, the requests to the store ending as outcome tells:
\* [signals, rows, calls]
process(client, rows, t, symbol, timeframe, cl, r, levels, outcome) ==
    IF Len(cl) < MIN_CLOSES THEN [signals |-> <<>>, rows |-> rows, calls |-> <<>>]
    ELSE IF r.exc # "" THEN [signals |-> <<>>, rows |-> rows, calls |-> <<>>]
    ELSE LET saved == save_signals(client, rows, t, symbol, timeframe, cl,
                                   r.results, levels, outcome, 1)
         IN  [signals |-> r.results, rows |-> saved.rows, calls |-> saved.calls]

\* the number of signals process_symbol loops over for closes cl
SaveCount(cl, r) ==
    IF Len(cl) < MIN_CLOSES \/ r.exc # "" THEN 0 ELSE Len(r.results)

NoCall ==
    [fn |-> "none", k |-> 0, series1 |-> <<>>, series2 |-> <<>>, index |-> 0,
     entry_price |-> None, direction |-> "None"]
NoStrategy == [id |-> "", name |-> "", indicators |-> <<>>, rules |-> <<>>]

HarnessIdle ==
    /\ h_strategy = NoStrategy /\ h_closes = <<>> /\ h_indicators = NoIndicators
    /\ h_call = NoCall /\ h_out = <<>>
    /\ i_data = <<>> /\ i_period = 0 /\ i_call = "none" /\ i_out = <<>>

ProgramIdle ==
    /\ supabase = "None" /\ now = 0 /\ db = <<>>
    /\ closes = <<>> /\ signals = <<>> /\ attempts = <<>>

Init == ProgramIdle /\ HarnessIdle

\* main: init_supabase succeeds, or fails and the engine exits
init_supabase ==
    /\ supabase = "None"
    /\ \E ok \in BOOLEAN : supabase' = IF ok THEN "client" ELSE "None"
    /\ UNCHANGED <<now, db, closes, signals, attempts,
                   h_strategy, h_closes, h_indicators, h_call, h_out,
                   i_data, i_period, i_call, i_out>>

\* process_symbol once fetch_candles returned cl: r and levels as for process
scan(symbol, timeframe, cl, r, levels) ==
    \E outcome \in [1..SaveCount(cl, r) -> Outcomes] :
        LET p == process(supabase, db, now, symbol, timeframe, cl, r, levels, outcome)
        IN  /\ Len(p.rows) <= MaxRows
            /\ closes' = cl
            /\ signals' = p.signals
            /\ db' = p.rows
            /\ attempts' = p.calls

\* run_scan_cycle: one call of process_symbol
process_symbol(symbol, timeframe) ==
    /\ supabase = "client"
    /\ \E cl \in CandleInputs : scan(symbol, timeframe, cl, SignalsOf[cl], LevelsOf[cl])
    /\ UNCHANGED <<supabase, now,
                   h_strategy, h_closes, h_indicators, h_call, h_out,
                   i_data, i_period, i_call, i_out>>

\* time passes between two calls
Tick ==
    /\ now + TickMinutes <= MaxNow
    /\ now' = now + TickMinutes
    /\ UNCHANGED <<supabase, db, closes, signals, attempts,
                   h_strategy, h_closes, h_indicators, h_call, h_out,
                   i_data, i_period, i_call, i_out>>

Next ==
    \/ init_supabase
    \/ \E symbol \in Symbols, tf \in 1..Len(TIMEFRAMES) :
            process_symbol(symbol, TIMEFRAMES[tf])
    \/ Tick

Spec == Init /\ [][Next]_vars

---------------------------------------------------------------------------
(* The engine called directly: run_strategy, run_all_strategies,           *)
(* evaluate_rule and detect_crossover are functions of their arguments.    *)
(* The indicators given to evaluate_rule are those run_strategy computes   *)
(* for the strategy.                                                       *)

InitEngine ==
    /\ ProgramIdle
    /\ h_strategy \in EngineStrategies
    /\ h_closes \in EngineInputs
    /\ h_indicators = compute_indicators(h_strategy.indicators, h_closes, 1, NoIndicators)
    /\ h_call = NoCall /\ h_out = <<>>
    /\ i_data = <<>> /\ i_period = 0 /\ i_call = "none" /\ i_out = <<>>

EngineUnchanged ==
    UNCHANGED <<supabase, now, db, closes, signals, attempts, h_strategy, h_closes,
                h_indicators,
                i_data, i_period, i_call, i_out>>

RunStrategy ==
    /\ h_call.fn = "none"
    /\ h_call' = [NoCall EXCEPT !.fn = "run_strategy"]
    /\ h_out' = run_strategy(h_strategy, h_closes)
    /\ EngineUnchanged

RunAllStrategies ==
    /\ h_call.fn = "none"
    /\ h_call' = [NoCall EXCEPT !.fn = "run_all_strategies"]
    /\ h_out' = run_all_strategies(h_closes)
    /\ EngineUnchanged

EvaluateRule(k) ==
    /\ h_call.fn = "none"
    /\ h_call' = [NoCall EXCEPT !.fn = "evaluate_rule", !.k = k]
    /\ h_out' = evaluate_rule(h_strategy.rules[k], h_indicators, h_closes)
    /\ EngineUnchanged

\* detect_crossover on the two series of rule k, at Python index index
DetectCrossover(k, index) ==
    LET series1 == get_series(h_strategy.rules[k].ind1, h_indicators, h_closes)
        series2 == get_series(h_strategy.rules[k].ind2, h_indicators, h_closes)
    IN  /\ h_call.fn = "none"
        /\ series1.some /\ series2.some
        /\ h_call' = [NoCall EXCEPT !.fn = "detect_crossover", !.k = k,
                                     !.series1 = series1.s, !.series2 = series2.s,
                                     !.index = index]
        /\ h_out' = detect_crossover(series1.s, series2.s, index)
        /\ EngineUnchanged

CalculateRiskLevels(entry_price, direction) ==
    /\ h_call.fn = "none"
    /\ h_call' = [NoCall EXCEPT !.fn = "calculate_risk_levels",
                                 !.entry_price = entry_price, !.direction = direction]
    /\ h_out' = calculate_risk_levels(entry_price, direction)
    /\ EngineUnchanged

NextEngine ==
    \/ RunStrategy
    \/ RunAllStrategies
    \/ \E k \in 1..Len(h_strategy.rules) : EvaluateRule(k)
    \/ \E k \in 1..Len(h_strategy.rules) :
            \E index \in {0, Len(h_closes) - 2, Len(h_closes) - 1} :
                DetectCrossover(k, index)
    \/ \E entry_price \in EntryPrices, direction \in {"BUY", "SELL"} :
            CalculateRiskLevels(entry_price, direction)

SpecEngine == InitEngine /\ [][NextEngine]_vars

---------------------------------------------------------------------------
(* The indicator library called directly.                                  *)

InitIndicators ==
    /\ ProgramIdle
    /\ h_strategy = NoStrategy /\ h_closes = <<>> /\ h_indicators = NoIndicators
    /\ h_call = NoCall /\ h_out = <<>>
    /\ i_data \in IndicatorInputs
    /\ i_period \in IndicatorPeriods
    /\ i_call = "none" /\ i_out = <<>>

IndicatorsUnchanged ==
    UNCHANGED <<supabase, now, db, closes, signals, attempts,
                h_strategy, h_closes, h_indicators, h_call, h_out, i_data, i_period>>

CalculateSma ==
    /\ i_call = "none"
    /\ i_call' = "calculate_sma"
    /\ i_out' = calculate_sma(i_data, i_period)
    /\ IndicatorsUnchanged

CalculateEma ==
    /\ i_call = "none"
    /\ i_call' = "calculate_ema"
    /\ i_out' = calculate_ema(i_data, i_period)
    /\ IndicatorsUnchanged

CalculateRsi ==
    /\ i_call = "none"
    /\ i_call' = "calculate_rsi"
    /\ i_out' = calculate_rsi(i_data, i_period)
    /\ IndicatorsUnchanged

NextIndicators == CalculateSma \/ CalculateEma \/ CalculateRsi

SpecIndicators == InitIndicators /\ [][NextIndicators]_vars

---------------------------------------------------------------------------
(* Properties.                                                             *)

\* C1: for every series of fewer than 50 closes, run_strategy returns an
\* empty list for every strategy, run_all_strategies returns an empty list,
\* and process_symbol saves no signal: it makes no call of save_signal and
\* the table is left as it was.
C1_ShortSeriesYieldNothing ==
    /\ [](Len(closes) < MIN_CLOSES =>
            /\ \A s \in EngineStrategies :
                    run_strategy(s, closes) = [exc |-> "", results |-> <<>>]
            /\ run_all_strategies(closes) = [exc |-> "", results |-> <<>>]
            /\ signals = <<>>
            /\ attempts = <<>>)
    /\ [][Len(closes') < MIN_CLOSES => db' = db]_vars

\* process_symbol fetched a series one close short of the minimum whose last
\* close is above the flat history, the table holding rows of earlier scans
C1_Witness ==
    /\ Len(closes) = MIN_CLOSES - 1
    /\ RGt(closes[Len(closes)], Num(BasePrice))
    /\ db # <<>>
    /\ signals = <<>>
    /\ attempts = <<>>

\* C2: evaluate_rule, for a greater_than or less_than rule that names an
\* operand-2 key and whose operand 1 is defined at the latest index: when the
\* key resolves to no series, or its series is undefined at the latest index,
\* the result is not triggered and its reason is 'Missing indicator2 data'.
C2_Operand2MissingIsReported ==
    h_call.fn = "evaluate_rule" =>
        LET rule == h_strategy.rules[h_call.k]
            latest == Len(h_closes)
            series1 == get_series(rule.ind1, h_indicators, h_closes)
            series2 == get_series(rule.ind2, h_indicators, h_closes)
        IN  (/\ rule.condition \in {"greater_than", "less_than"}
             /\ rule.ind2 # ""
             /\ series1.some /\ ~IsNone(series1.s[latest])
             /\ (~series2.some \/ IsNone(series2.s[latest])))
            => /\ h_out.exc = ""
               /\ ~h_out.triggered
               /\ h_out.reason = "Missing indicator2 data"

\* C3: evaluate_rule, for a greater_than (less_than) rule whose operand 1 is
\* defined at the latest index: with an operand-2 key that resolves to a
\* series defined at the latest index, the close key included, the rule
\* triggers iff operand 1 is strictly greater (less) than operand 2 there;
\* with no operand-2 key it triggers iff operand 1 is strictly greater (less)
\* than the rule's constant; a triggered result carries the rule's direction.
C3_ComparisonAgainstOperand2 ==
    h_call.fn = "evaluate_rule" =>
        LET rule == h_strategy.rules[h_call.k]
            latest == Len(h_closes)
            series1 == get_series(rule.ind1, h_indicators, h_closes)
            series2 == get_series(rule.ind2, h_indicators, h_closes)
            constant == IF rule.has_value THEN rule.value ELSE Zero
            beats(x, y) == IF rule.condition = "greater_than"
                           THEN x[1] * y[2] > y[1] * x[2]
                           ELSE x[1] * y[2] < y[1] * x[2]
        IN  (/\ rule.condition \in {"greater_than", "less_than"}
             /\ series1.some /\ ~IsNone(series1.s[latest]))
            => /\ h_out.exc = ""
               /\ (rule.ind2 # "" /\ series2.some /\ ~IsNone(series2.s[latest]))
                    => (h_out.triggered <=> beats(series1.s[latest], series2.s[latest]))
               /\ rule.ind2 = ""
                    => (h_out.triggered <=> beats(series1.s[latest], constant))
               /\ h_out.triggered => h_out.direction = rule.direction

\* C4: detect_crossover(A, B, i) returns 'up' iff i >= 1, the four values
\* A[i-1], B[i-1], A[i], B[i] are defined, A[i-1] < B[i-1] and A[i] > B[i];
\* 'down' iff the mirror strict inequalities hold; none in every other case,
\* in particular when A[i] = B[i] or A[i-1] = B[i-1].  A crossover rule
\* triggers only on 'up' and a crossunder rule only on 'down'.
C4_CrossoverIsStrict ==
    /\ h_call.fn = "detect_crossover" =>
        LET A == h_call.series1
            B == h_call.series2
            i == h_call.index
            defined == /\ i >= 1
                       /\ A[i][2] # 0 /\ B[i][2] # 0
                       /\ A[i + 1][2] # 0 /\ B[i + 1][2] # 0
            below(j) == A[j][1] * B[j][2] < B[j][1] * A[j][2]
            above(j) == A[j][1] * B[j][2] > B[j][1] * A[j][2]
            up == defined /\ below(i) /\ above(i + 1)
            down == defined /\ above(i) /\ below(i + 1)
        IN  /\ h_out \in {"up", "down", "None"}
            /\ (h_out = "up") <=> up
            /\ (h_out = "down") <=> down
            /\ (defined /\ ((~below(i) /\ ~above(i)) \/ (~below(i + 1) /\ ~above(i + 1))))
                    => h_out = "None"
    /\ h_call.fn = "evaluate_rule" =>
        LET rule == h_strategy.rules[h_call.k]
            series1 == get_series(rule.ind1, h_indicators, h_closes)
            series2 == get_series(rule.ind2, h_indicators, h_closes)
        IN  (rule.condition \in {"crossover", "crossunder"} /\ h_out.triggered)
            => /\ series1.some /\ series2.some
               /\ detect_crossover(series1.s, series2.s, Len(h_closes) - 1)
                    = (IF rule.condition = "crossover" THEN "up" ELSE "down")

\* detect_crossover was given two series that touch at the index after A was
\* below B, and returned none
C4_Witness ==
    /\ h_call.fn = "detect_crossover"
    /\ h_call.index >= 1
    /\ LET A == h_call.series1
           B == h_call.series2
           i == h_call.index
       IN  /\ ~IsNone(A[i]) /\ ~IsNone(B[i]) /\ ~IsNone(A[i + 1]) /\ ~IsNone(B[i + 1])
           /\ RLt(A[i], B[i])
           /\ REq(A[i + 1], B[i + 1])
    /\ h_out = "None"

\* C5: for every series of at least 50 closes, run_all_strategies returns
\* exactly one result per (strategy, rule) pair of the catalog whose rule
\* fires: each result is triggered, has the rule's direction, BUY or SELL, and
\* the id and name of the strategy owning the rule; the results stand in
\* catalog order and, within a strategy, in rule order, none removed.
C5_OneResultPerFiringRule ==
    (h_call.fn = "run_all_strategies" /\ Len(h_closes) >= MIN_CLOSES) =>
        LET strategy(p) == BUILT_IN_STRATEGIES[p[1]]
            rule(p) == strategy(p).rules[p[2]]
            outcome(p) ==
                evaluate_rule(rule(p),
                    compute_indicators(strategy(p).indicators, h_closes, 1, NoIndicators),
                    h_closes)
            pairs == UNION {{<<s, k>> : k \in 1..Len(BUILT_IN_STRATEGIES[s].rules)} :
                                s \in 1..Len(BUILT_IN_STRATEGIES)}
            firing == {p \in pairs : outcome(p).triggered}
            \* the place of pair p among the firing pairs, in catalog and rule order
            place(p) == Cardinality({q \in firing :
                                        q[1] < p[1] \/ (q[1] = p[1] /\ q[2] <= p[2])})
        IN  /\ h_out.exc = ""
            /\ Len(h_out.results) = Cardinality(firing)
            /\ \A p \in firing :
                LET result == h_out.results[place(p)]
                IN  /\ result.triggered
                    /\ result.direction = rule(p).direction
                    /\ result.direction \in {"BUY", "SELL"}
                    /\ result.strategy_id = strategy(p).id
                    /\ result.strategy_name = strategy(p).name
                    /\ result.reason = outcome(p).reason

\* run_all_strategies returned the results of two strategies
C5_Witness ==
    /\ h_call.fn = "run_all_strategies"
    /\ Len(h_closes) >= MIN_CLOSES
    /\ Len(h_out.results) = 2
    /\ h_out.results[1].strategy_id = BUILT_IN_STRATEGIES[1].id
    /\ h_out.results[2].strategy_id = BUILT_IN_STRATEGIES[2].id

\* C6: for every series of at least 50 closes and every strategy,
\* run_strategy does not raise; a rule that references an operand that is
\* unresolvable or undefined at the latest index, or whose condition kind is
\* not recognised, yields a non-triggered result with a reason and
\* contributes no entry to the returned list.
C6_DegenerateRulesYieldNoEntry ==
    (h_call.fn = "run_strategy" /\ Len(h_closes) >= MIN_CLOSES) =>
        LET latest == Len(h_closes)
            rules == h_strategy.rules
            undefined(key) ==
                LET series == get_series(key, h_indicators, h_closes)
                IN  ~series.some \/ IsNone(series.s[latest])
            degenerate(k) ==
                \/ rules[k].condition
                        \notin {"crossover", "crossunder", "greater_than", "less_than"}
                \/ undefined(rules[k].ind1)
                \/ rules[k].ind2 # "" /\ undefined(rules[k].ind2)
            sound == {k \in 1..Len(rules) : ~degenerate(k)}
        IN  /\ h_out.exc = ""
            /\ \A k \in 1..Len(rules) :
                degenerate(k) =>
                    LET result == evaluate_rule(rules[k], h_indicators, h_closes)
                    IN  result.exc = "" /\ ~result.triggered /\ result.reason # ""
            /\ Len(h_out.results)
                = Cardinality({k \in sound :
                        evaluate_rule(rules[k], h_indicators, h_closes).triggered})

\* C7: save_signal inserts no record when a record with the same strategy
\* id, symbol and direction was created within the last 60 minutes: no two
\* rows of the table with the same strategy id, symbol and direction have
\* creation times less than DUPLICATE_LOOKBACK_MINUTES apart.
C7_NoDuplicateWithinLookback ==
    \A i, j \in 1..Len(db) :
        (/\ i < j
         /\ db[i].strategy_id = db[j].strategy_id
         /\ db[i].symbol = db[j].symbol
         /\ db[i].direction = db[j].direction)
        => db[j].created_at - db[i].created_at >= DUPLICATE_LOOKBACK_MINUTES

\* C8: calculate_rsi returns a series as long as its input; it is undefined
\* throughout when period <= 0 or period >= len(closes); otherwise its first
\* period entries are undefined, every later entry lies within [0, 100], and
\* an entry is 100 when the running average loss is zero, which is when no
\* close up to it is below its predecessor.
C8_RsiWithinRange ==
    i_call = "calculate_rsi" =>
        LET n == Len(i_data)
            p == i_period
            within(x) == x[2] > 0 /\ 0 <= x[1] /\ x[1] <= 100 * x[2]
            no_loss(j) == \A m \in 2..j : i_data[m][1] >= i_data[m - 1][1]
        IN  /\ Len(i_out) = n
            /\ (p <= 0 \/ p >= n) => \A j \in 1..n : i_out[j] = None
            /\ (0 < p /\ p < n) =>
                /\ \A j \in 1..p : i_out[j] = None
                /\ \A j \in (p + 1)..n : within(i_out[j])
                /\ \A j \in (p + 1)..n : no_loss(j) => i_out[j] = Num(100)

\* calculate_rsi returned a series whose defined entries hold 100, after gains
\* alone, and then a value strictly inside the range, after a loss
C8_Witness ==
    /\ i_call = "calculate_rsi"
    /\ 0 < i_period /\ i_period < Len(i_data) - 1
    /\ i_out[i_period + 1] = Num(100)
    /\ ~IsNone(i_out[Len(i_data)])
    /\ RLt(Zero, i_out[Len(i_data)]) /\ RLt(i_out[Len(i_data)], Num(100))

\* C9: for data of length n and a period p with 1 <= p <= n, calculate_sma
\* returns n entries, the first p - 1 undefined and no other, the entry at
\* each index i >= p - 1 being the arithmetic mean of data[i-p+1..i]; when
\* p <= 0 or p > n it returns n undefined entries.
C9_SmaIsWindowMean ==
    i_call = "calculate_sma" =>
        LET n == Len(i_data)
            p == i_period
            \* data[0] + ... + data[m-1]; the inputs are whole numbers
            prefix[m \in 0..n] == IF m = 0 THEN 0 ELSE prefix[m - 1] + i_data[m][1]
        IN  /\ Len(i_out) = n
            /\ (p <= 0 \/ p > n) => \A j \in 1..n : i_out[j] = None
            /\ (1 <= p /\ p <= n) =>
                \A j \in 1..n :
                    IF j < p THEN i_out[j] = None
                    ELSE /\ i_out[j][2] > 0
                         /\ i_out[j][1] * p = (prefix[j] - prefix[j - p]) * i_out[j][2]

\* calculate_sma returned, for a period inside the data, a last mean that is
\* no whole number, after undefined leading entries
C9_Witness ==
    /\ i_call = "calculate_sma"
    /\ 1 < i_period /\ i_period < Len(i_data)
    /\ i_out[1] = None
    /\ i_out[Len(i_data)][2] > 1

\* C10: calculate_risk_levels(entry, direction) is, for BUY, stop_loss = 0.98
\* entry and take_profit = 1.04 entry, for SELL stop_loss = 1.02 entry and
\* take_profit = 0.96 entry (entry = 100: 98 and 104, 102 and 96); for a
\* positive entry stop_loss < entry < take_profit on BUY and take_profit <
\* entry < stop_loss on SELL; the take-profit distance is twice the stop-loss
\* distance.
C10_RiskLevels ==
    h_call.fn = "calculate_risk_levels" =>
        LET e == h_call.entry_price
            sl == h_out.stop_loss
            tp == h_out.take_profit
            \* x = (pct / 100) * e
            is(x, pct) == x[2] # 0 /\ x[1] * 100 * e[2] = pct * e[1] * x[2]
            lt(x, y) == x[1] * y[2] < y[1] * x[2]
            \* |x - e| * x[2] * e[2]
            distance(x) == Abs(x[1] * e[2] - e[1] * x[2])
        IN  /\ DOMAIN h_out = {"stop_loss", "take_profit"}
            /\ h_call.direction = "BUY" =>
                /\ is(sl, 98) /\ is(tp, 104)
                /\ e = Num(100) => sl = Num(98) /\ tp = Num(104)
                /\ lt(Zero, e) => lt(sl, e) /\ lt(e, tp)
            /\ h_call.direction = "SELL" =>
                /\ is(sl, 102) /\ is(tp, 96)
                /\ e = Num(100) => sl = Num(102) /\ tp = Num(96)
                /\ lt(Zero, e) => lt(tp, e) /\ lt(e, sl)
            /\ distance(tp) * sl[2] = 2 * distance(sl) * tp[2]

\* calculate_risk_levels was given the entry 100 of a BUY and returned the
\* stop 98 below it
C10_Witness ==
    /\ h_call.fn = "calculate_risk_levels"
    /\ h_call.direction = "BUY"
    /\ h_call.entry_price = Num(100)
    /\ h_out.stop_loss = Num(98)

\* the results among sigs that carry the id of strategy
results_of(sigs, strategy) ==
    SelectSeq(sigs, LAMBDA result : result.strategy_id = strategy.id)

\* run_all_strategies, on every series given to the engine directly, returns
\* at most one result per strategy of the catalog and none for a strategy
\* whose moving average the latest close equals
CatalogOnEngineInputs ==
    \A cl \in EngineInputs :
        LET r == run_all_strategies(cl)
        IN  /\ r.exc = ""
            /\ Len(r.results) <= Len(BUILT_IN_STRATEGIES)
            /\ \A s \in 1..Len(BUILT_IN_STRATEGIES) :
                LET strategy == BUILT_IN_STRATEGIES[s]
                    ind == strategy.indicators[1]
                    average == calculate_indicator(ind.type, cl, ind)["main"][Len(cl)]
                IN  /\ Len(results_of(r.results, strategy)) <= 1
                    /\ (Len(cl) >= MIN_CLOSES /\ cl[Len(cl)] = average)
                            => results_of(r.results, strategy) = <<>>

\* C11: with the built-in catalog one evaluation never yields both a BUY and
\* a SELL result from the same strategy: each strategy contributes at most
\* one result, and none when the latest close equals its moving average, so
\* run_all_strategies returns at most two results and process_symbol makes at
\* most two calls of save_signal for a symbol and timeframe.
C11_OneResultPerStrategy ==
    /\ CatalogOnEngineInputs
    /\ Len(signals) <= 2
    /\ Len(attempts) <= 2
    /\ \A s \in 1..Len(BUILT_IN_STRATEGIES) :
        LET strategy == BUILT_IN_STRATEGIES[s]
            mine == results_of(signals, strategy)
            ind == strategy.indicators[1]
        IN  /\ Len(mine) <= 1
            /\ ~(\E i, j \in 1..Len(signals) :
                    /\ signals[i].strategy_id = strategy.id
                    /\ signals[j].strategy_id = strategy.id
                    /\ signals[i].direction = "BUY"
                    /\ signals[j].direction = "SELL")
            /\ (/\ Len(closes) >= MIN_CLOSES
                /\ closes[Len(closes)]
                    = calculate_indicator(ind.type, closes, ind)["main"][Len(closes)])
                => mine = <<>>

\* process_symbol evaluated a series whose last close is off both moving
\* averages: one result from each strategy, and two calls of save_signal
C11_Witness ==
    /\ Len(closes) >= MIN_CLOSES
    /\ Len(signals) = 2
    /\ signals[1].strategy_id = BUILT_IN_STRATEGIES[1].id
    /\ signals[2].strategy_id = BUILT_IN_STRATEGIES[2].id
    /\ Len(attempts) = 2

====
